---- MODULE Spec2Model ----
(***************************************************************************)
(* downloader.py: the dispatch loop (process_url), the Google Drive        *)
(* orchestrator (download_google_drive), the two direct-transfer fallbacks *)
(* and the failure ledger (log_failed_google_download), as one sequential  *)
(* state machine.  External collaborators (gdown, requests, the page) are  *)
(* nondeterministic: each invocation picks one of the outcomes the code    *)
(* distinguishes.  An append to the ledger file is taken to succeed.       *)
(***************************************************************************)
EXTENDS Integers, Sequences, FiniteSets, TLC

\* ------------------------------------------------------------------ bounds
\* longest sequence of links the scraped page yields
MaxLinks == 3
\* most query parameters of a shared link
MaxQuery == 2
\* longest sequence of links of a page of folder links
MaxBatch == 3
\* most lines log_failed_google_download is called to add
MaxLedger == 2

\* ------------------------------------------------------- program constants
max_retries == 3

\* -------------------------------------------------------------------- URLs
\* A URL is held as urlparse splits it: host labels (netloc), path segments,
\* the suffix of the last segment, and the query as a sequence of <<key, value>>.
MkUrl(h, p, e, q) == [host |-> h, path |-> p, ext |-> e, query |-> q]

\* from_url = None
NoUrl == MkUrl(<<>>, <<>>, "", <<>>)
\* the literal text "UNKNOWN_URL"
UNKNOWN_URL == MkUrl(<<>>, <<"UNKNOWN_URL">>, "", <<>>)

PageUrl    == MkUrl(<<"oversight", "house", "gov">>, <<"release">>, "", <<>>)
PdfUrl     == MkUrl(<<"example", "com">>, <<"docs", "a">>, ".pdf", <<>>)
ZipUrl     == MkUrl(<<"example", "com">>, <<"files", "B">>, ".ZIP", <<>>)
AboutUrl   == MkUrl(<<"example", "com">>, <<"about">>, "", <<>>)
FileUrl    == MkUrl(<<"drive", "google", "com">>, <<"uc">>, "", << <<"id", "ABC123">> >>)
FolderUrl  == MkUrl(<<"drive", "google", "com">>, <<"drive", "folders", "F1">>, "", <<>>)
DropboxUrl == MkUrl(<<"www", "dropbox", "com">>, <<"s", "xyz", "report">>, ".pdf", << <<"dl", "0">> >>)
\* a host naming both providers
BothUrl    == MkUrl(<<"drive", "google", "com", "dropbox", "com">>, <<"x">>, "", <<>>)
\* the uc? URL gdown quotes in a FileURLRetrievalError message
UcUrl      == MkUrl(<<"drive", "google", "com">>, <<"uc">>, "", << <<"id", "XYZ">> >>)

\* a second folder, in the /drive/u/0/folders/ form
Folder2Url == MkUrl(<<"drive", "google", "com">>, <<"drive", "u", "0", "folders", "F2">>, "", <<>>)

LinkUrls  == {PdfUrl, ZipUrl, AboutUrl, FileUrl, FolderUrl, DropboxUrl}
\* the links of a page of folder links
BatchLinks == {FolderUrl, Folder2Url, PdfUrl}
AllLinks == LinkUrls \cup BatchLinks
InputUrls == {PageUrl, FileUrl, FolderUrl, DropboxUrl, BothUrl}

\* `sub in seq` on label/segment sequences
Contains(seq, sub) ==
    \E i \in 0..(Len(seq) - Len(sub)) : \A j \in 1..Len(sub) : seq[i + j] = sub[j]

is_google_drive_url(u) == Contains(u.host, <<"drive", "google", "com">>)

is_dropbox_url(u) == Contains(u.host, <<"dropbox", "com">>)

\* "/folders/" in path: a segment "folders" with a segment after it
HasFolders(p) == \E i \in 1..(Len(p) - 1) : p[i] = "folders"

\* "/drive/folders/" in path
HasDriveFolders(p) == \E i \in 1..(Len(p) - 2) : p[i] = "drive" /\ p[i + 1] = "folders"

IsSingleFile(u) == ~HasFolders(u.path) /\ ~HasDriveFolders(u.path)

\* str.lower() on the suffixes in use
Lower(s) == CASE s = ".ZIP" -> ".zip"
              [] s = ".PDF" -> ".pdf"
              [] OTHER -> s

exts == {".pdf", ".doc", ".docx", ".xls", ".xlsx", ".csv", ".zip", ".txt"}

\* mutant: the empty suffix counted among the extensions
looks_like_direct_file_anything(u) == Lower(u.ext) \in exts \cup {""}

looks_like_direct_file(u) == Lower(u.ext) \in exts

\* ------------------------------------------------------------ query dicts
\* percent-decoding and quote_plus, on the texts in use
unquote(t) == CASE t = "a%20b" -> "a b"
                [] OTHER -> t

quote_plus(t) == CASE t = "a b" -> "a+b"
                   [] OTHER -> t

\* parse_qsl drops pairs with a blank value and decodes the others
parse_qsl(q) ==
    LET kept == SelectSeq(q, LAMBDA p : p[2] # "")
    IN  [i \in 1..Len(kept) |-> <<unquote(kept[i][1]), unquote(kept[i][2])>>]

\* urlencode(dict): each key and value through quote_plus
urlencode(d) == [i \in 1..Len(d) |-> <<quote_plus(d[i][1]), quote_plus(d[i][2])>>]

DictHas(d, k) == \E i \in 1..Len(d) : d[i][1] = k

\* d[k] = v : keeps the position of an existing key
DictSet(d, k, v) ==
    IF DictHas(d, k)
    THEN [i \in 1..Len(d) |-> IF d[i][1] = k THEN <<k, v>> ELSE d[i]]
    ELSE Append(d, <<k, v>>)

RECURSIVE DictFrom(_, _)
DictFrom(d, ps) ==
    IF ps = <<>> THEN d ELSE DictFrom(DictSet(d, Head(ps)[1], Head(ps)[2]), Tail(ps))

\* dict(pairs)
dict(ps) == DictFrom(<<>>, ps)

DictGet(d, k, dflt) ==
    IF DictHas(d, k) THEN (CHOOSE p \in {d[i] : i \in 1..Len(d)} : p[1] = k)[2] ELSE dflt

setdefault(d, k, v) == IF DictHas(d, k) THEN d ELSE Append(d, <<k, v>>)

\* direct_url of the two fallbacks: export=download added when absent
DirectUrl(from_url) ==
    [from_url EXCEPT !.query =
        urlencode(setdefault(dict(parse_qsl(from_url.query)), "export", "download"))]

\* direct_url of download_dropbox_file: query["dl"] = "1"
DropboxDirectUrl(u) ==
    [u EXCEPT !.query = urlencode(DictSet(dict(parse_qsl(u.query)), "dl", "1"))]

\* ------------------------------------------------------------------ paths
\* A path is its sequence of segments; NoPath is to_path = None.
NoPath == <<>>
UNKNOWN_PATH == <<"UNKNOWN_PATH">>
data_dir == <<"data">>
\* the path an older-style message reports after "To:"
ToHint == <<"data", "F1", "doc.bin">>

\* Content-Type values: the media type and its parameters
ContentTypes == {<<"text/html", "charset=utf-8">>, <<"application/pdf">>, <<>>}

InCt(tok, ct) == \E i \in 1..Len(ct) : ct[i] = tok

guess_extension_from_content_type(ct) ==
    CASE InCt("image/jpeg", ct) -> ".jpg"
      [] InCt("image/png", ct) -> ".png"
      [] InCt("image/gif", ct) -> ".gif"
      [] InCt("application/pdf", ct) -> ".pdf"
      [] InCt("text/plain", ct) -> ".txt"
      [] OTHER -> ""

\* Content-Disposition filename values ("" : header absent or without filename)
Dispositions == {"", "report.pdf"}

\* to_path of download_file_direct_guess_name
GuessPath(from_url, out_dir, ct, cd) ==
    LET file_id == DictGet(dict(parse_qsl(from_url.query)), "id", "unknown_id")
        filename == IF cd # "" THEN <<cd>>
                    ELSE <<file_id, guess_extension_from_content_type(ct)>>
    IN  out_dir \o <<"gdrive_fallback">> \o filename

\* ----------------------------------------------------------------- ledger
\* A reason text: its fixed wording and what is formatted into it
Reason(wording, detail) == [wording |-> wording, detail |-> detail]

\* One line of failed_downloads_google.txt: URL<TAB>LOCAL_PATH<TAB>REASON
LedgerLine(from_url, to_path, reason) ==
    [url    |-> IF from_url = NoUrl THEN UNKNOWN_URL ELSE from_url,
     path   |-> IF to_path = NoPath THEN UNKNOWN_PATH ELSE to_path,
     reason |-> reason]

\* a line an earlier run left in the file, which is opened for append
OldLine ==
    LedgerLine(MkUrl(<<"drive", "google", "com">>, <<"drive", "folders", "F0">>, "", <<>>),
               data_dir, Reason("Unexpected error in gdown.download_folder", <<"e">>))

\* -------------------------------------------------------------- the state
VARIABLES
    url,          \* process_url's argument
    links,        \* what find_links_on_page(url) yields, in order
    pc,           \* position in the program
    pos,          \* index of the next link the generator yields
    seen,         \* process_url's seen set
    handled,      \* links that passed the seen test, in order
    calls,        \* fetcher invocations so far: [fn, url]
    pageFetches,  \* invocations of find_links_on_page
    ledger,       \* lines of the failure ledger
    disk,         \* paths written
    out,          \* process_url's "Failed on" prints: [tag, link]
    requested,    \* direct_url of download_dropbox_file's last GET
    caller,       \* where the fetcher in progress was called from
    cur,          \* url argument of the fetcher in progress
    attempt,      \* the folder loop's attempt (0 outside the loop)
    outcomes,     \* outcomes of the native invocations of this call
    fallbacks,    \* fallback transfers started by this call
    ledgerAtCall, \* Len(ledger) when download_google_drive was entered
    obtained,     \* native success or a fallback that completed, this call
    fbKind,       \* fallback entry point in progress / last used by this call
    fbFrom,       \* from_url of the fallback
    fbTo,         \* to_path of the fallback
    fbCt,         \* content_type of the fallback's response
    fbMark,       \* Len(ledger) when the fallback was entered
    fbState       \* "none", "writing", "returned", "raised"

env      == <<url, links>>
loopVars == <<pos, seen, handled>>
callVars == <<caller, cur, attempt, outcomes, fallbacks, ledgerAtCall, obtained>>
fbVars   == <<fbKind, fbFrom, fbTo, fbCt, fbMark, fbState>>
vars     == <<env, requested, pc, loopVars, calls, pageFetches, ledger, disk, out, callVars, fbVars>>

RECURSIVE SeqsUpTo(_, _)
SeqsUpTo(S, n) ==
    IF n = 0 THEN {<<>>}
    ELSE LET shorter == SeqsUpTo(S, n - 1)
         IN  shorter \cup {Append(s, x) : s \in shorter, x \in S}

Init ==
    /\ url \in InputUrls
    /\ links \in (IF is_google_drive_url(url) \/ is_dropbox_url(url)
                  THEN {<<>>} ELSE SeqsUpTo(LinkUrls, MaxLinks))
    /\ pc = "start"
    /\ pos = 1
    /\ seen = {}
    /\ handled = <<>>
    /\ calls = <<>>
    /\ pageFetches = 0
    /\ ledger \in {<<>>, <<OldLine>>}
    /\ disk = {}
    /\ out = <<>>
    /\ requested = NoUrl
    /\ caller = "none"
    /\ cur = NoUrl
    /\ attempt = 0
    /\ outcomes = <<>>
    /\ fallbacks = 0
    /\ ledgerAtCall = 0
    /\ obtained = FALSE
    /\ fbKind = "none"
    /\ fbFrom = NoUrl
    /\ fbTo = NoPath
    /\ fbCt = <<>>
    /\ fbMark = 0
    /\ fbState = "none"

\* ---------------------------------------------------- bookkeeping helpers
\* log_failed_google_download: the ledger after the append
log_failed_google_download(from_url, to_path, reason) ==
    Append(ledger, LedgerLine(from_url, to_path, reason))

Call(fn, u) == [fn |-> fn, url |-> u]

ClearCall ==
    /\ caller' = "none"
    /\ cur' = NoUrl
    /\ attempt' = 0
    /\ outcomes' = <<>>
    /\ fallbacks' = 0
    /\ ledgerAtCall' = 0
    /\ obtained' = FALSE

ClearFallback ==
    /\ fbKind' = "none"
    /\ fbFrom' = NoUrl
    /\ fbTo' = NoPath
    /\ fbCt' = <<>>
    /\ fbMark' = 0
    /\ fbState' = "none"

\* mutant: the attempts an earlier folder call used up stay used up
EnterDrive_shared_budget(u, from) ==
    /\ calls' = Append(calls, Call("download_google_drive", u))
    /\ pc' = IF IsSingleFile(u) THEN "single_native" ELSE "folder_attempt"
    /\ attempt' = IF IsSingleFile(u) THEN 0
                  ELSE IF \E i \in 1..Len(calls) : ~IsSingleFile(calls[i].url)
                            /\ calls[i].fn = "download_google_drive"
                       THEN max_retries ELSE 1
    /\ caller' = from
    /\ cur' = u
    /\ outcomes' = <<>>
    /\ fallbacks' = 0
    /\ ledgerAtCall' = Len(ledger)
    /\ obtained' = FALSE
    /\ ClearFallback

\* entry of download_google_drive(u, data_dir), up to the first native call
EnterDrive(u, from) ==
    /\ calls' = Append(calls, Call("download_google_drive", u))
    /\ pc' = IF IsSingleFile(u) THEN "single_native" ELSE "folder_attempt"
    /\ attempt' = IF IsSingleFile(u) THEN 0 ELSE 1
    /\ caller' = from
    /\ cur' = u
    /\ outcomes' = <<>>
    /\ fallbacks' = 0
    /\ ledgerAtCall' = Len(ledger)
    /\ obtained' = FALSE
    /\ ClearFallback

\* entry of download_dropbox_file / download_generic_file
EnterFetcher(fn, u, from, at) ==
    /\ calls' = Append(calls, Call(fn, u))
    /\ pc' = at
    /\ caller' = from
    /\ cur' = u
    /\ UNCHANGED <<attempt, outcomes, fallbacks, ledgerAtCall, obtained, fbVars>>

\* ------------------------------------------------------------ process_url
ProcessUrlDrive ==
    /\ pc = "start"
    /\ is_google_drive_url(url)
    /\ EnterDrive(url, "direct")
    /\ UNCHANGED <<env, requested, out, loopVars, pageFetches, ledger, disk>>

ProcessUrlDropbox ==
    /\ pc = "start"
    /\ ~is_google_drive_url(url)
    /\ is_dropbox_url(url)
    /\ EnterFetcher("download_dropbox_file", url, "direct", "dropbox")
    /\ UNCHANGED <<env, requested, out, loopVars, pageFetches, ledger, disk>>

\* neither provider: the for statement calls find_links_on_page(url)
\* mutant: the page is scraped whatever the input URL is
ProcessUrlScrape_unguarded ==
    /\ pc = "start"
    /\ pageFetches' = pageFetches + 1
    /\ pc' = "page"
    /\ UNCHANGED <<env, requested, out, loopVars, calls, ledger, disk, callVars, fbVars>>

ProcessUrlScrape ==
    /\ pc = "start"
    /\ ~is_google_drive_url(url)
    /\ ~is_dropbox_url(url)
    /\ pageFetches' = pageFetches + 1
    /\ pc' = "page"
    /\ UNCHANGED <<env, requested, out, loopVars, calls, ledger, disk, callVars, fbVars>>

\* find_links_on_page: the page GET answers 2xx
PageFetchOk ==
    /\ pc = "page"
    /\ pc' = "loop"
    /\ UNCHANGED <<env, requested, out, loopVars, calls, pageFetches, ledger, disk, callVars, fbVars>>

\* find_links_on_page: the GET or raise_for_status raises, out of process_url
PageFetchFail ==
    /\ pc = "page"
    /\ pc' = "raised"
    /\ UNCHANGED <<env, requested, out, loopVars, calls, pageFetches, ledger, disk, callVars, fbVars>>

\* the generator is exhausted
LoopExhausted ==
    /\ pc = "loop"
    /\ pos > Len(links)
    /\ pc' = "done"
    /\ UNCHANGED <<env, requested, out, loopVars, calls, pageFetches, ledger, disk, callVars, fbVars>>

\* if link in seen: continue
LoopSkipSeen ==
    /\ pc = "loop"
    /\ pos <= Len(links)
    /\ links[pos] \in seen
    /\ pos' = pos + 1
    /\ UNCHANGED <<env, requested, out, pc, seen, handled, calls, pageFetches, ledger, disk, callVars, fbVars>>

\* the link is new: seen.add(link)
TakeLink(link) ==
    /\ pc = "loop"
    /\ pos <= Len(links)
    /\ link = links[pos]
    /\ link \notin seen
    /\ pos' = pos + 1
    /\ seen' = seen \cup {link}
    /\ handled' = Append(handled, link)

LoopDrive ==
    \E link \in AllLinks :
        /\ TakeLink(link)
        /\ is_google_drive_url(link)
        /\ EnterDrive(link, "link")
        /\ UNCHANGED <<env, requested, out, pageFetches, ledger, disk>>

LoopDropbox ==
    \E link \in AllLinks :
        /\ TakeLink(link)
        /\ ~is_google_drive_url(link)
        /\ is_dropbox_url(link)
        /\ EnterFetcher("download_dropbox_file", link, "link", "dropbox")
        /\ UNCHANGED <<env, requested, out, pageFetches, ledger, disk>>

LoopGeneric ==
    \E link \in AllLinks :
        /\ TakeLink(link)
        /\ ~is_google_drive_url(link)
        /\ ~is_dropbox_url(link)
        /\ looks_like_direct_file(link)
        /\ EnterFetcher("download_generic_file", link, "link", "generic")
        /\ UNCHANGED <<env, requested, out, pageFetches, ledger, disk>>

\* not a recognized asset type: continue
LoopIgnore ==
    \E link \in AllLinks :
        /\ TakeLink(link)
        /\ ~is_google_drive_url(link)
        /\ ~is_dropbox_url(link)
        /\ ~looks_like_direct_file(link)
        /\ UNCHANGED <<env, requested, out, pc, calls, pageFetches, ledger, disk, callVars, fbVars>>

\* ------------------------------------- download_dropbox_file, download_generic_file
\* back in process_url after a fetcher other than download_google_drive:
\* a scraped link's exception is printed and the loop goes on
\* mutant: no try/except around a scraped link's fetcher
AfterFetcher_uncaught(tag, raises) ==
    IF caller = "link" /\ ~raises
    THEN /\ pc' = "loop"
         /\ out' = out
         /\ ClearCall
    ELSE /\ pc' = IF raises THEN "raised" ELSE "done"
         /\ UNCHANGED <<out, callVars>>

AfterFetcher(tag, raises) ==
    IF caller = "link"
    THEN /\ pc' = "loop"
         /\ out' = IF raises THEN Append(out, [tag |-> tag, link |-> cur]) ELSE out
         /\ ClearCall
    ELSE /\ pc' = IF raises THEN "raised" ELSE "done"
         /\ UNCHANGED <<out, callVars>>

\* local_path of download_dropbox_file
DropboxPath(u, cd) ==
    IF cd # "" THEN data_dir \o <<cd>>
    ELSE data_dir \o <<u.path[Len(u.path)], u.ext>>

DropboxOk ==
    /\ pc = "dropbox"
    /\ \E cd \in Dispositions : disk' = disk \cup {DropboxPath(cur, cd)}
    /\ requested' = DropboxDirectUrl(cur)
    /\ AfterFetcher("dropbox", FALSE)
    /\ UNCHANGED <<env, loopVars, calls, pageFetches, ledger, fbVars>>

\* the GET of direct_url, raise_for_status or the write raises
DropboxFail ==
    /\ pc = "dropbox"
    /\ requested' = DropboxDirectUrl(cur)
    /\ AfterFetcher("dropbox", TRUE)
    /\ UNCHANGED <<env, loopVars, calls, pageFetches, ledger, disk, fbVars>>

make_local_path_for_generic(u, base_dir) == base_dir \o u.host \o u.path \o <<u.ext>>

GenericOk ==
    /\ pc = "generic"
    /\ disk' = disk \cup {make_local_path_for_generic(cur, data_dir)}
    /\ AfterFetcher("generic", FALSE)
    /\ UNCHANGED <<env, requested, loopVars, calls, pageFetches, ledger, fbVars>>

\* mutant: a generic fetch that raises is also written to the ledger
GenericFail_logs ==
    /\ pc = "generic"
    /\ ledger' = log_failed_google_download(cur, NoPath,
                     Reason("Unexpected error in gdown.download_folder", <<"e">>))
    /\ AfterFetcher("generic", TRUE)
    /\ UNCHANGED <<env, requested, loopVars, calls, pageFetches, disk, fbVars>>

GenericFail ==
    /\ pc = "generic"
    /\ AfterFetcher("generic", TRUE)
    /\ UNCHANGED <<env, requested, loopVars, calls, pageFetches, ledger, disk, fbVars>>

\* -------------------------------------------- download_google_drive: single file
\* what a FileURLRetrievalError message can hold: a uc? URL or none, a To: path or none
MsgUrls == {NoUrl, UcUrl}
\* where gdown puts what it downloads: under output
NativePath(u, out_dir) == out_dir \o u.path
MsgPaths == {NoPath, ToHint}

Native(outcome) == outcomes' = Append(outcomes, outcome)

\* a fallback transfer is entered
StartFallback(kind, from_url, to_path) ==
    /\ fallbacks' = fallbacks + 1
    /\ fbKind' = kind
    /\ fbFrom' = from_url
    /\ fbTo' = to_path
    /\ fbCt' = <<>>
    /\ fbMark' = Len(ledger)
    /\ fbState' = "none"
    /\ pc' = "fb_get"

\* gdown.download returns
SingleOk ==
    /\ pc = "single_native"
    /\ Native("ok")
    /\ disk' = disk \cup {NativePath(cur, data_dir)}
    /\ obtained' = TRUE
    /\ pc' = "gd_return"
    /\ UNCHANGED <<env, requested, out, loopVars, calls, pageFetches, ledger,
                   caller, cur, attempt, fallbacks, ledgerAtCall, fbVars>>

\* gdown.download raises something that is not a FileURLRetrievalError
SingleOther ==
    /\ pc = "single_native"
    /\ Native("other")
    /\ pc' = "gd_raise"
    /\ UNCHANGED <<env, requested, out, loopVars, calls, pageFetches, ledger, disk,
                   caller, cur, attempt, fallbacks, ledgerAtCall, obtained, fbVars>>

\* mutant: the parse failure is logged with the file URL and output directory
SingleNoParse_logs_url ==
    /\ pc = "single_native"
    /\ Native("FileURLRetrievalError")
    /\ ledger' = log_failed_google_download(cur, data_dir,
                     Reason("Could not parse uc?id=... URL from single-file FileURLRetrievalError", <<>>))
    /\ pc' = "gd_return"
    /\ UNCHANGED <<env, requested, out, loopVars, calls, pageFetches, disk,
                   caller, cur, attempt, fallbacks, ledgerAtCall, obtained, fbVars>>

\* FileURLRetrievalError, no uc? URL in the message
SingleNoParse ==
    /\ pc = "single_native"
    /\ Native("FileURLRetrievalError")
    /\ ledger' = log_failed_google_download(NoUrl, NoPath,
                     Reason("Could not parse uc?id=... URL from single-file FileURLRetrievalError", <<>>))
    /\ pc' = "gd_return"
    /\ UNCHANGED <<env, requested, out, loopVars, calls, pageFetches, disk,
                   caller, cur, attempt, fallbacks, ledgerAtCall, obtained, fbVars>>

\* FileURLRetrievalError quoting a uc? URL: download_file_direct_guess_name
SingleFallback ==
    /\ pc = "single_native"
    /\ Native("FileURLRetrievalError")
    /\ \E from_url \in MsgUrls \ {NoUrl} : StartFallback("guess_name", from_url, NoPath)
    /\ UNCHANGED <<env, requested, out, loopVars, calls, pageFetches, ledger, disk,
                   caller, cur, attempt, ledgerAtCall, obtained>>

\* ------------------------------------------------- download_google_drive: folder
\* mutant: the return after a completed folder download is missing
FolderOk_continues ==
    /\ pc = "folder_attempt"
    /\ Native("ok")
    /\ disk' = disk \cup {NativePath(cur, data_dir)}
    /\ obtained' = TRUE
    /\ IF attempt = max_retries
       THEN pc' = "gd_return" /\ UNCHANGED attempt
       ELSE attempt' = attempt + 1 /\ UNCHANGED pc
    /\ UNCHANGED <<env, requested, out, loopVars, calls, pageFetches, ledger,
                   caller, cur, fallbacks, ledgerAtCall, fbVars>>

FolderOk ==
    /\ pc = "folder_attempt"
    /\ Native("ok")
    /\ disk' = disk \cup {NativePath(cur, data_dir)}
    /\ obtained' = TRUE
    /\ pc' = "gd_return"
    /\ UNCHANGED <<env, requested, out, loopVars, calls, pageFetches, ledger,
                   caller, cur, attempt, fallbacks, ledgerAtCall, fbVars>>

\* mutant: the limit error is logged without the return
FolderLimit_retries ==
    /\ pc = "folder_attempt"
    /\ Native("FolderContentsMaximumLimitError")
    /\ ledger' = log_failed_google_download(cur, data_dir,
                     Reason("FolderContentsMaximumLimitError", <<"e">>))
    /\ IF attempt = max_retries
       THEN pc' = "gd_return" /\ UNCHANGED attempt
       ELSE attempt' = attempt + 1 /\ UNCHANGED pc
    /\ UNCHANGED <<env, requested, out, loopVars, calls, pageFetches, disk,
                   caller, cur, fallbacks, ledgerAtCall, obtained, fbVars>>

FolderLimit ==
    /\ pc = "folder_attempt"
    /\ Native("FolderContentsMaximumLimitError")
    /\ ledger' = log_failed_google_download(cur, data_dir,
                     Reason("FolderContentsMaximumLimitError", <<"e">>))
    /\ pc' = "gd_return"
    /\ UNCHANGED <<env, requested, out, loopVars, calls, pageFetches, disk,
                   caller, cur, attempt, fallbacks, ledgerAtCall, obtained, fbVars>>

\* mutant: after a message without a uc? URL the loop goes on to the next attempt
FolderNoParse_retries ==
    /\ pc = "folder_attempt"
    /\ Native("FileURLRetrievalError")
    /\ ledger' = log_failed_google_download(NoUrl, NoPath,
                     Reason("Could not parse uc?id=... URL from FileURLRetrievalError", <<>>))
    /\ IF attempt = max_retries
       THEN pc' = "gd_return" /\ UNCHANGED attempt
       ELSE attempt' = attempt + 1 /\ UNCHANGED pc
    /\ UNCHANGED <<env, requested, out, loopVars, calls, pageFetches, disk,
                   caller, cur, fallbacks, ledgerAtCall, obtained, fbVars>>

FolderNoParse ==
    /\ pc = "folder_attempt"
    /\ Native("FileURLRetrievalError")
    /\ ledger' = log_failed_google_download(NoUrl, NoPath,
                     Reason("Could not parse uc?id=... URL from FileURLRetrievalError", <<>>))
    /\ pc' = "gd_return"
    /\ UNCHANGED <<env, requested, out, loopVars, calls, pageFetches, disk,
                   caller, cur, attempt, fallbacks, ledgerAtCall, obtained, fbVars>>

\* a To: path in the message picks download_file_direct_to_path
FolderFallback ==
    /\ pc = "folder_attempt"
    /\ Native("FileURLRetrievalError")
    /\ \E from_url \in MsgUrls \ {NoUrl}, to_path \in MsgPaths :
           IF to_path # NoPath
           THEN StartFallback("to_path", from_url, to_path)
           ELSE StartFallback("guess_name", from_url, NoPath)
    /\ UNCHANGED <<env, requested, out, loopVars, calls, pageFetches, ledger, disk,
                   caller, cur, attempt, ledgerAtCall, obtained>>

\* mutant: every JSONDecodeError is logged, not only the last
FolderJson_logs_each ==
    /\ pc = "folder_attempt"
    /\ Native("JSONDecodeError")
    /\ ledger' = log_failed_google_download(cur, data_dir,
                     Reason("JSONDecodeError in gdown.download_folder", <<"e">>))
    /\ IF attempt = max_retries
       THEN pc' = "gd_return" /\ UNCHANGED attempt
       ELSE attempt' = attempt + 1 /\ UNCHANGED pc
    /\ UNCHANGED <<env, requested, out, loopVars, calls, pageFetches, disk,
                   caller, cur, fallbacks, ledgerAtCall, obtained, fbVars>>

\* mutant: the give-up test is off by one
FolderJson_one_more ==
    /\ pc = "folder_attempt"
    /\ Native("JSONDecodeError")
    /\ IF attempt > max_retries
       THEN /\ ledger' = log_failed_google_download(cur, data_dir,
                             Reason("JSONDecodeError in gdown.download_folder", <<"e">>))
            /\ pc' = "gd_return"
            /\ UNCHANGED attempt
       ELSE /\ attempt' = attempt + 1
            /\ UNCHANGED <<ledger, pc>>
    /\ UNCHANGED <<env, requested, out, loopVars, calls, pageFetches, disk,
                   caller, cur, fallbacks, ledgerAtCall, obtained, fbVars>>

\* json.JSONDecodeError: log and return on the last attempt, else continue
FolderJson ==
    /\ pc = "folder_attempt"
    /\ Native("JSONDecodeError")
    /\ IF attempt = max_retries
       THEN /\ ledger' = log_failed_google_download(cur, data_dir,
                             Reason("JSONDecodeError in gdown.download_folder", <<"e">>))
            /\ pc' = "gd_return"
            /\ UNCHANGED attempt
       ELSE /\ attempt' = attempt + 1
            /\ UNCHANGED <<ledger, pc>>
    /\ UNCHANGED <<env, requested, out, loopVars, calls, pageFetches, disk,
                   caller, cur, fallbacks, ledgerAtCall, obtained, fbVars>>

\* mutant: an unclassified failure is retried like a JSONDecodeError
FolderOther_retries ==
    /\ pc = "folder_attempt"
    /\ Native("other")
    /\ IF attempt = max_retries
       THEN /\ ledger' = log_failed_google_download(cur, data_dir,
                             Reason("Unexpected error in gdown.download_folder", <<"e">>))
            /\ pc' = "gd_return"
            /\ UNCHANGED attempt
       ELSE /\ attempt' = attempt + 1
            /\ UNCHANGED <<ledger, pc>>
    /\ UNCHANGED <<env, requested, out, loopVars, calls, pageFetches, disk,
                   caller, cur, fallbacks, ledgerAtCall, obtained, fbVars>>

\* except Exception
FolderOther ==
    /\ pc = "folder_attempt"
    /\ Native("other")
    /\ ledger' = log_failed_google_download(cur, data_dir,
                     Reason("Unexpected error in gdown.download_folder", <<"e">>))
    /\ pc' = "gd_return"
    /\ UNCHANGED <<env, requested, out, loopVars, calls, pageFetches, disk,
                   caller, cur, attempt, fallbacks, ledgerAtCall, obtained, fbVars>>

\* ------------- download_file_direct_to_path, download_file_direct_guess_name
\* the except clause around the fallback call, in download_google_drive
FallbackExcReason ==
    IF IsSingleFile(cur)
    THEN Reason("Fallback single-file exception", <<"inner_e">>)
    ELSE Reason("Fallback direct download exception", <<"inner_e">>)

\* mutant: equality with "text/html" in place of containment
IsHtml_exact(ct) == ct = <<"text/html">>

\* "text/html" in content_type
IsHtml(ct) == InCt("text/html", ct)

HtmlReason(kind, ct, to_path) ==
    IF kind = "to_path"
    THEN Reason("HTML response when writing to", ct \o to_path)
    ELSE Reason("HTML response when guessing name", ct \o to_path)

\* requests.get or raise_for_status raises; download_google_drive catches it,
\* logs and returns
FallbackGetFail ==
    /\ pc = "fb_get"
    /\ fbState' = "raised"
    /\ ledger' = log_failed_google_download(fbFrom, NoPath, FallbackExcReason)
    /\ pc' = "gd_return"
    /\ UNCHANGED <<env, requested, out, loopVars, calls, pageFetches, disk, callVars,
                   fbKind, fbFrom, fbTo, fbCt, fbMark>>

\* a 2xx response: the headers are read, an HTML content type is logged,
\* and the body is about to be written
FallbackResponse ==
    /\ pc = "fb_get"
    /\ \E ct \in ContentTypes, cd \in Dispositions :
         LET to_path == IF fbKind = "to_path" THEN fbTo
                        ELSE GuessPath(fbFrom, data_dir, ct, cd)
         IN  /\ fbKind = "to_path" => cd = ""
             /\ fbCt' = ct
             /\ fbTo' = to_path
             /\ ledger' = IF IsHtml(ct)
                          THEN log_failed_google_download(DirectUrl(fbFrom), to_path,
                                                          HtmlReason(fbKind, ct, to_path))
                          ELSE ledger
    /\ fbState' = "writing"
    /\ pc' = "fb_write"
    /\ UNCHANGED <<env, requested, out, loopVars, calls, pageFetches, disk, callVars,
                   fbKind, fbFrom, fbMark>>

\* mutant: after a fallback that completed, the folder loop goes on, as the
\* docstring of download_google_drive describes
FallbackWriteOk_resumes ==
    /\ pc = "fb_write"
    /\ disk' = disk \cup {fbTo}
    /\ fbState' = "returned"
    /\ obtained' = TRUE
    /\ IF ~IsSingleFile(cur) /\ attempt < max_retries
       THEN attempt' = attempt + 1 /\ pc' = "folder_attempt"
       ELSE pc' = "gd_return" /\ UNCHANGED attempt
    /\ UNCHANGED <<env, requested, out, loopVars, calls, pageFetches, ledger,
                   caller, cur, outcomes, fallbacks, ledgerAtCall,
                   fbKind, fbFrom, fbTo, fbCt, fbMark>>

\* the body is written; the fallback returns and so does download_google_drive
\* mutant: a fallback that completed is written to the ledger too
FallbackWriteOk_logs ==
    /\ pc = "fb_write"
    /\ disk' = disk \cup {fbTo}
    /\ fbState' = "returned"
    /\ obtained' = TRUE
    /\ ledger' = log_failed_google_download(fbFrom, fbTo, FallbackExcReason)
    /\ pc' = "gd_return"
    /\ UNCHANGED <<env, requested, out, loopVars, calls, pageFetches,
                   caller, cur, attempt, outcomes, fallbacks, ledgerAtCall,
                   fbKind, fbFrom, fbTo, fbCt, fbMark>>

FallbackWriteOk ==
    /\ pc = "fb_write"
    /\ disk' = disk \cup {fbTo}
    /\ fbState' = "returned"
    /\ obtained' = TRUE
    /\ pc' = "gd_return"
    /\ UNCHANGED <<env, requested, out, loopVars, calls, pageFetches, ledger,
                   caller, cur, attempt, outcomes, fallbacks, ledgerAtCall,
                   fbKind, fbFrom, fbTo, fbCt, fbMark>>

\* mutant: no except clause around the fallback call
FallbackWriteFail_propagates ==
    /\ pc = "fb_write"
    /\ fbState' = "raised"
    /\ pc' = "gd_raise"
    /\ UNCHANGED <<env, requested, out, loopVars, calls, pageFetches, ledger, disk, callVars,
                   fbKind, fbFrom, fbTo, fbCt, fbMark>>

\* open or iter_content raises; download_google_drive catches it, logs and returns
FallbackWriteFail ==
    /\ pc = "fb_write"
    /\ fbState' = "raised"
    /\ ledger' = log_failed_google_download(fbFrom, NoPath, FallbackExcReason)
    /\ pc' = "gd_return"
    /\ UNCHANGED <<env, requested, out, loopVars, calls, pageFetches, disk, callVars,
                   fbKind, fbFrom, fbTo, fbCt, fbMark>>

\* --------------------------------- back in process_url from download_google_drive
\* a scraped link's call returned
DriveReturnsToLoop ==
    /\ pc = "gd_return"
    /\ caller = "link"
    /\ pc' = "loop"
    /\ ClearCall
    /\ ClearFallback
    /\ UNCHANGED <<env, requested, out, loopVars, calls, pageFetches, ledger, disk>>

\* mutant: no try/except around a scraped link's download_google_drive
DriveRaiseCaught_uncaught ==
    /\ pc = "gd_raise"
    /\ caller = "link"
    /\ pc' = "raised"
    /\ UNCHANGED <<env, requested, out, loopVars, calls, pageFetches, ledger, disk, callVars, fbVars>>

\* a scraped link's call raised: except Exception prints and the loop goes on
DriveRaiseCaught ==
    /\ pc = "gd_raise"
    /\ caller = "link"
    /\ pc' = "loop"
    /\ out' = Append(out, [tag |-> "gdrive", link |-> cur])
    /\ ClearCall
    /\ ClearFallback
    /\ UNCHANGED <<env, requested, loopVars, calls, pageFetches, ledger, disk>>

\* the input URL's call returned: process_url returns
DriveReturnsDirect ==
    /\ pc = "gd_return"
    /\ caller = "direct"
    /\ pc' = "done"
    /\ UNCHANGED <<env, requested, out, loopVars, calls, pageFetches, ledger, disk, callVars, fbVars>>

\* the input URL's call raised: nothing catches it in process_url
DriveRaiseDirect ==
    /\ pc = "gd_raise"
    /\ caller = "direct"
    /\ pc' = "raised"
    /\ UNCHANGED <<env, requested, out, loopVars, calls, pageFetches, ledger, disk, callVars, fbVars>>

\* ------------------------------------------------------ the specification
Next ==
    \/ ProcessUrlDrive
    \/ ProcessUrlDropbox
    \/ ProcessUrlScrape
    \/ PageFetchOk
    \/ PageFetchFail
    \/ LoopExhausted
    \/ LoopSkipSeen
    \/ LoopDrive
    \/ LoopDropbox
    \/ LoopGeneric
    \/ LoopIgnore
    \/ DropboxOk
    \/ DropboxFail
    \/ GenericOk
    \/ GenericFail
    \/ SingleOk
    \/ SingleOther
    \/ SingleNoParse
    \/ SingleFallback
    \/ FolderOk
    \/ FolderLimit
    \/ FolderNoParse
    \/ FolderFallback
    \/ FolderJson
    \/ FolderOther
    \/ FallbackGetFail
    \/ FallbackResponse
    \/ FallbackWriteOk
    \/ FallbackWriteFail
    \/ DriveReturnsToLoop
    \/ DriveRaiseCaught
    \/ DriveReturnsDirect
    \/ DriveRaiseDirect

Spec == Init /\ [][Next]_vars

\* -------------------------------------- process_url on a page of folder links
InitBatch ==
    /\ url = PageUrl
    /\ links \in SeqsUpTo(BatchLinks, MaxBatch)
    /\ pc = "start"
    /\ pos = 1
    /\ seen = {}
    /\ handled = <<>>
    /\ calls = <<>>
    /\ pageFetches = 0
    /\ ledger = <<>>
    /\ disk = {}
    /\ out = <<>>
    /\ requested = NoUrl
    /\ caller = "none"
    /\ cur = NoUrl
    /\ attempt = 0
    /\ outcomes = <<>>
    /\ fallbacks = 0
    /\ ledgerAtCall = 0
    /\ obtained = FALSE
    /\ fbKind = "none"
    /\ fbFrom = NoUrl
    /\ fbTo = NoPath
    /\ fbCt = <<>>
    /\ fbMark = 0
    /\ fbState = "none"

\* the steps process_url can take on such a page
NextBatch ==
    \/ ProcessUrlScrape
    \/ PageFetchOk
    \/ PageFetchFail
    \/ LoopExhausted
    \/ LoopSkipSeen
    \/ LoopDrive
    \/ LoopGeneric
    \/ GenericOk
    \/ GenericFail
    \/ FolderOk
    \/ FolderLimit
    \/ FolderNoParse
    \/ FolderFallback
    \/ FolderJson
    \/ FolderOther
    \/ FallbackGetFail
    \/ FallbackResponse
    \/ FallbackWriteOk
    \/ FallbackWriteFail
    \/ DriveReturnsToLoop

SpecBatch == InitBatch /\ [][NextBatch]_vars

\* Execution is sequential and every call either completes or raises: a step
\* that can be taken is taken.
LiveBatch == SpecBatch /\ WF_vars(NextBatch)

\* ------------------------------ process_url on shared links of any query
QueryKeys == {"dl", "rlkey"}
QueryValues == {"0", "1", "", "a%20b"}

\* https://www.dropbox.com/s/xyz/report.pdf?<q>
SharedLink(q) == MkUrl(<<"www", "dropbox", "com">>, <<"s", "xyz", "report">>, ".pdf", q)

InitShared ==
    /\ url \in {SharedLink(q) : q \in SeqsUpTo(QueryKeys \X QueryValues, MaxQuery)}
    /\ links = <<>>
    /\ pc = "start"
    /\ pos = 1
    /\ seen = {}
    /\ handled = <<>>
    /\ calls = <<>>
    /\ pageFetches = 0
    /\ ledger = <<>>
    /\ disk = {}
    /\ out = <<>>
    /\ requested = NoUrl
    /\ caller = "none"
    /\ cur = NoUrl
    /\ attempt = 0
    /\ outcomes = <<>>
    /\ fallbacks = 0
    /\ ledgerAtCall = 0
    /\ obtained = FALSE
    /\ fbKind = "none"
    /\ fbFrom = NoUrl
    /\ fbTo = NoPath
    /\ fbCt = <<>>
    /\ fbMark = 0
    /\ fbState = "none"

\* the steps process_url can take on a shared link
NextShared ==
    \/ ProcessUrlDropbox
    \/ DropboxOk
    \/ DropboxFail

SpecShared == InitShared /\ [][NextShared]_vars

\* ------------------------------------------- the ledger file as text
\* str(e) of a caught exception: one line, two lines, or a line with a tab
ExcTexts == {<<"e">>, <<"e", "\n", "f">>, <<"e", "\t", "f">>}

\* line = f"{url_str}\t{path_str}\t{reason}\n": the characters written for
\* one call, a URL and a path each taken as one token
Render(l) ==
    <<IF l.url = UNKNOWN_URL THEN "UNKNOWN_URL" ELSE "URL", "\t",
      IF l.path = UNKNOWN_PATH THEN "UNKNOWN_PATH" ELSE "PATH", "\t",
      l.reason.wording>> \o l.reason.detail \o <<"\n">>

\* the contents of failed_downloads_google.txt after the calls in lg
RECURSIVE FileText(_)
FileText(lg) == IF lg = <<>> THEN <<>> ELSE Render(Head(lg)) \o FileText(Tail(lg))

\* text cut at every sep: the pieces between separators
RECURSIVE SplitFrom(_, _, _, _)
SplitFrom(text, sep, piece, acc) ==
    IF text = <<>> THEN Append(acc, piece)
    ELSE IF Head(text) = sep
         THEN SplitFrom(Tail(text), sep, <<>>, Append(acc, piece))
         ELSE SplitFrom(Tail(text), sep, Append(piece, Head(text)), acc)

Split(text, sep) == SplitFrom(text, sep, <<>>, <<>>)

\* the records of the file, one per line (the piece after the last line
\* break is no line)
FileRecords(text) ==
    LET pieces == Split(text, "\n") IN SubSeq(pieces, 1, Len(pieces) - 1)

Fields(line) == Split(line, "\t")

\* the arguments of the call sites of log_failed_google_download
LogArgs ==
    {[from_url |-> FolderUrl, to_path |-> data_dir, reason |-> Reason(w, <<"e">>)] :
        w \in {"FolderContentsMaximumLimitError", "JSONDecodeError in gdown.download_folder"}}
    \cup {[from_url |-> FolderUrl, to_path |-> data_dir,
           reason |-> Reason("Unexpected error in gdown.download_folder", t)] : t \in ExcTexts}
    \cup {[from_url |-> UcUrl, to_path |-> NoPath, reason |-> Reason(w, t)] :
            w \in {"Fallback single-file exception", "Fallback direct download exception"},
            t \in ExcTexts}
    \cup {[from_url |-> NoUrl, to_path |-> NoPath, reason |-> Reason(w, <<>>)] :
            w \in {"Could not parse uc?id=... URL from single-file FileURLRetrievalError",
                   "Could not parse uc?id=... URL from FileURLRetrievalError"}}
    \cup {[from_url |-> DirectUrl(UcUrl), to_path |-> ToHint,
           reason |-> HtmlReason(k, ct, ToHint)] :
            k \in {"to_path", "guess_name"}, ct \in {c \in ContentTypes : IsHtml(c)}}

\* one call of log_failed_google_download
LogCall ==
    /\ Len(ledger) < MaxLedger
    /\ \E a \in LogArgs :
         ledger' = log_failed_google_download(a.from_url, a.to_path, a.reason)
    /\ UNCHANGED <<env, requested, pc, loopVars, calls, pageFetches, disk, out,
                   callVars, fbVars>>

InitLedger ==
    /\ url = FolderUrl
    /\ links = <<>>
    /\ pc = "start"
    /\ pos = 1
    /\ seen = {}
    /\ handled = <<>>
    /\ calls = <<>>
    /\ pageFetches = 0
    /\ ledger \in {<<>>, <<OldLine>>}
    /\ disk = {}
    /\ out = <<>>
    /\ requested = NoUrl
    /\ caller = "none"
    /\ cur = NoUrl
    /\ attempt = 0
    /\ outcomes = <<>>
    /\ fallbacks = 0
    /\ ledgerAtCall = 0
    /\ obtained = FALSE
    /\ fbKind = "none"
    /\ fbFrom = NoUrl
    /\ fbTo = NoPath
    /\ fbCt = <<>>
    /\ fbMark = 0
    /\ fbState = "none"

NextLedger == LogCall

SpecLedger == InitLedger /\ [][NextLedger]_vars

TypeOK ==
    /\ pc \in {"start", "page", "loop", "dropbox", "generic", "single_native",
               "folder_attempt", "fb_get", "fb_write", "gd_return", "gd_raise",
               "done", "raised"}
    /\ attempt \in 0..max_retries
    /\ caller \in {"none", "direct", "link"}

\* ------------------------------------------------------------- properties
\* download_google_drive is the fetcher in progress, or the one process_url
\* ended in when the input URL was a Drive URL
InDriveCall ==
    /\ cur # NoUrl
    /\ calls # <<>>
    /\ calls[Len(calls)] = Call("download_google_drive", cur)

InFolderCall == InDriveCall /\ cur \in {FolderUrl, Folder2Url}

InSingleCall == InDriveCall /\ cur \in {FileUrl, BothUrl}

\* download_google_drive has returned or raised
CallOver == pc \in {"gd_return", "gd_raise", "done", "raised"}

\* ledger lines appended since download_google_drive was entered
Records == Len(ledger) - ledgerAtCall

NativeCalls == Len(outcomes)

Last(s) == s[Len(s)]

AllJson == \A i \in 1..Len(outcomes) : outcomes[i] = "JSONDecodeError"

\* C1: whenever a call of download_google_drive is over and the asset was
\* obtained neither by the native capability nor by a fallback that completed,
\* exactly one ledger line was appended during the call.
C1_OneRecordPerTerminalFailure ==
    (InDriveCall /\ CallOver /\ ~obtained) => Records = 1

\* C2: in a folder call whose native invocations all raised JSONDecodeError,
\* there are at most max_retries invocations, no ledger line of this call
\* exists while an attempt is still to be made, and once the call is over
\* there were exactly max_retries invocations and exactly one line, the
\* JSONDecodeError line for the folder URL.
C2_TransientRetriesThenOneRecord ==
    (InFolderCall /\ AllJson) =>
        /\ NativeCalls <= 3
        /\ pc = "folder_attempt" => (Records = 0 /\ NativeCalls = attempt - 1)
        /\ CallOver =>
              /\ NativeCalls = 3
              /\ Records = 1
              /\ Last(ledger) = LedgerLine(FolderUrl, data_dir,
                     Reason("JSONDecodeError in gdown.download_folder", <<"e">>))

C2_Witness ==
    /\ InFolderCall
    /\ pc = "gd_return"
    /\ outcomes = <<"JSONDecodeError", "JSONDecodeError", "JSONDecodeError">>
    /\ Records = 1

\* C3: in a folder call whose first native invocation raised the folder
\* limit error, that invocation is the only one, the call is over, no
\* fallback ran and exactly one ledger line was appended.
C3_LimitIsTerminal ==
    (InFolderCall /\ NativeCalls >= 1 /\ outcomes[1] = "FolderContentsMaximumLimitError") =>
        /\ NativeCalls = 1
        /\ CallOver
        /\ pc # "gd_raise"
        /\ fallbacks = 0
        /\ Records = 1
        /\ Last(ledger).url = FolderUrl

C3_Witness ==
    /\ InFolderCall
    /\ pc = "gd_return"
    /\ outcomes = <<"FolderContentsMaximumLimitError">>
    /\ Records = 1

C5_FolderNeverRaises ==
    InFolderCall =>
        /\ pc \notin {"gd_raise", "raised"}
        /\ fbState = "raised" =>
              /\ pc \in {"gd_return", "done"}
              /\ Records >= 1
              /\ Last(ledger) = LedgerLine(fbFrom, NoPath,
                     Reason("Fallback direct download exception", <<"inner_e">>))
        /\ (CallOver /\ ~obtained) => Records >= 1

C5_Witness ==
    /\ InFolderCall
    /\ pc = "gd_return"
    /\ fbState = "raised"
    /\ fbCt # <<>>

HtmlWordings == {"HTML response when writing to", "HTML response when guessing name"}

\* ledger lines the fallback transfer in progress (or last run) wrote itself
FallbackRecords ==
    Cardinality({i \in (fbMark + 1)..Len(ledger) : ledger[i].reason.wording \in HtmlWordings})

\* the uc? URL of the message with export=download added
UcDirectUrl ==
    MkUrl(<<"drive", "google", "com">>, <<"uc">>, "", << <<"id", "XYZ">>, <<"export", "download">> >>)

HtmlLine(kind, ct, to_path) ==
    [url    |-> UcDirectUrl,
     path   |-> to_path,
     reason |-> [wording |-> IF kind = "to_path" THEN "HTML response when writing to"
                             ELSE "HTML response when guessing name",
                 detail  |-> ct \o to_path]]

\* C6: in either fallback entry point, once the 2xx response is read: a
\* text/html content type has put exactly one line in the ledger (URL with
\* export=download, destination path, content type) and any other content
\* type none; that line is there while the body is still to be written, the
\* write itself appends nothing, and a fallback that returned has written
\* its destination path.
C6_HtmlLoggedOnceBodyWritten ==
    /\ [](fbKind # "none" =>
            /\ fbState = "none" => Len(ledger) = fbMark
            /\ fbState \in {"writing", "returned"} =>
                  /\ FallbackRecords = (IF InCt("text/html", fbCt) THEN 1 ELSE 0)
                  /\ Len(ledger) = fbMark + FallbackRecords
                  /\ InCt("text/html", fbCt) => Last(ledger) = HtmlLine(fbKind, fbCt, fbTo)
            /\ fbState = "writing" => pc = "fb_write"
            /\ fbState = "returned" => fbTo \in disk)
    /\ [][(fbState = "writing" /\ fbState' = "returned") =>
              (ledger' = ledger /\ disk' = disk \cup {fbTo})]_vars

\* download_file_direct_guess_name returned after an HTML response, in a run
\* where download_file_direct_to_path had logged an HTML response before
C6_Witness ==
    /\ fbKind = "guess_name"
    /\ fbState = "returned"
    /\ InCt("text/html", fbCt)
    /\ fbTo \in disk
    /\ Len(ledger) = fbMark + 1
    /\ \E i \in 1..fbMark : ledger[i].reason.wording = "HTML response when writing to"
    /\ ToHint \in disk

RECURSIVE DedupeFrom(_, _)
DedupeFrom(s, acc) ==
    IF s = <<>> THEN acc
    ELSE IF \E i \in 1..Len(acc) : acc[i] = Head(s)
         THEN DedupeFrom(Tail(s), acc)
         ELSE DedupeFrom(Tail(s), Append(acc, Head(s)))

\* first occurrences, in order
Dedupe(s) == DedupeFrom(s, <<>>)

\* C7: in a page-scrape run, the links handled so far are the first
\* occurrences among the links yielded so far, in order; a link is taken only
\* at the loop head with no fetcher in progress; the run ends only with every
\* link yielded, and process_url raises only when the page fetch itself failed.
C7_EachLinkOnceInOrder ==
    /\ [](url = PageUrl =>
            /\ handled = Dedupe(SubSeq(links, 1, pos - 1))
            /\ pc = "loop" => (cur = NoUrl /\ caller = "none" /\ fbKind = "none")
            /\ pc = "done" => (pos = Len(links) + 1 /\ handled = Dedupe(links))
            /\ pc = "raised" => (pos = 1 /\ calls = <<>>)
            /\ \A i, j \in 1..Len(calls) : calls[i].url = calls[j].url => i = j
            /\ \A i \in 1..Len(calls) : \E j \in 1..Len(handled) : handled[j] = calls[i].url)
    /\ [][handled' # handled =>
              (pc = "loop" /\ cur = NoUrl /\ handled' = Append(handled, links[pos]))]_vars

\* the first link's fetcher raised, the second link was handled, the third
\* repeated the first and was skipped
C7_Witness ==
    /\ url = PageUrl
    /\ pc = "done"
    /\ Len(links) = 3
    /\ links[3] = links[1]
    /\ handled = <<links[1], links[2]>>
    /\ out # <<>>
    /\ out[1].link = links[1]

\* C8 as stated: after the native single-file capability raised something
\* other than a FileURLRetrievalError, process_url does not raise.
C8_ProcessUrlNeverRaises ==
    (InSingleCall /\ outcomes = <<"other">>) => pc # "raised"

\* C8 amended: the exception leaves download_google_drive with no ledger line
\* and no fallback; for a scraped link process_url prints it and goes on with
\* the loop, and only for the input URL itself does process_url raise.
C8_IsolatedPerScrapedLink ==
    /\ []((InSingleCall /\ outcomes = <<"other">>) =>
            /\ pc \in {"gd_raise", "raised"}
            /\ Records = 0
            /\ fallbacks = 0
            /\ pc = "raised" => (caller = "direct" /\ cur = url))
    /\ [][(pc = "gd_raise" /\ caller = "link") =>
              /\ pc' = "loop"
              /\ out' = Append(out, [tag |-> "gdrive", link |-> cur])
              /\ UNCHANGED <<ledger, pos, handled>>]_vars
    /\ []((url = PageUrl /\ pc = "raised") => calls = <<>>)

\* a scraped single-file link raised and the link after it is being fetched
C8_Witness ==
    /\ url = PageUrl
    /\ out = <<[tag |-> "gdrive", link |-> FileUrl]>>
    /\ handled = <<FileUrl, PdfUrl>>
    /\ pc = "generic"
    /\ ledger = <<>>
    /\ calls = <<Call("download_google_drive", FileUrl), Call("download_generic_file", PdfUrl)>>

\* C9: when the input URL is a Drive or Dropbox URL, find_links_on_page is
\* never invoked and, once dispatched, the only fetcher invocation there ever
\* is is the matching fetcher on the input URL.
C9_DirectUrlOneFetcherNoScrape ==
    url \in {FileUrl, FolderUrl, DropboxUrl, BothUrl} =>
        /\ pageFetches = 0
        /\ pc \notin {"page", "loop", "generic"}
        /\ pc = "start" => calls = <<>>
        /\ pc # "start" =>
              calls = <<Call(IF url = DropboxUrl THEN "download_dropbox_file"
                             ELSE "download_google_drive", url)>>

C9_Witness ==
    /\ url = DropboxUrl
    /\ pc = "done"
    /\ calls = <<Call("download_dropbox_file", DropboxUrl)>>
    /\ disk # {}

ScenarioC == <<PdfUrl, AboutUrl, FolderUrl>>

\* C10: no fetcher is ever invoked on the unrecognised link and no ledger
\* line names it; taking it changes nothing but the loop's own state; and the
\* page of scenario C ends with exactly one download_generic_file call and
\* one download_google_drive call on the folder.
C10_UnrecognisedLinkIgnored ==
    /\ [](/\ \A i \in 1..Len(calls) : calls[i].url # AboutUrl
          /\ \A i \in 1..Len(ledger) : ledger[i].url # AboutUrl
          /\ (links = ScenarioC /\ pc = "done") =>
                calls = <<Call("download_generic_file", PdfUrl),
                          Call("download_google_drive", FolderUrl)>>)
    /\ [][(handled' # handled /\ Last(handled') = AboutUrl) =>
              UNCHANGED <<pc, calls, ledger, disk, out, callVars, fbVars>>]_vars

C10_Witness ==
    /\ links = ScenarioC
    /\ pc = "done"
    /\ handled = ScenarioC
    /\ Len(calls) = 2

\* C11: in a call of download_google_drive, a native invocation that
\* succeeded is the last one of the call; the call is over and has returned,
\* no fallback was started and the ledger is as it was when the call began.
C11_SuccessReturnsAtOnce ==
    (InDriveCall /\ \E i \in 1..NativeCalls : outcomes[i] = "ok") =>
        /\ \A i \in 1..NativeCalls : outcomes[i] = "ok" => i = NativeCalls
        /\ pc \in {"gd_return", "done"}
        /\ fallbacks = 0
        /\ fbKind = "none"
        /\ Records = 0
        /\ obtained

\* a folder download that completed on the third attempt
C11_Witness ==
    /\ InFolderCall
    /\ pc = "gd_return"
    /\ outcomes = <<"JSONDecodeError", "JSONDecodeError", "ok">>
    /\ Records = 0

\* C12: once download_dropbox_file has issued its GET, the query requested
\* holds dl=1 and, unchanged, every parameter of the original query other
\* than dl (repeated keys and blank values included).
C12_QueryKeptWithDl1 ==
    requested # NoUrl =>
        /\ \E j \in 1..Len(requested.query) : requested.query[j] = <<"dl", "1">>
        /\ \A i \in 1..Len(cur.query) :
              cur.query[i][1] # "dl" =>
                  \E j \in 1..Len(requested.query) : requested.query[j] = cur.query[i]

\* ledger lines of this call whose reason has the given wording
RecordsWorded(w) ==
    Cardinality({i \in (ledgerAtCall + 1)..Len(ledger) : ledger[i].reason.wording = w})

\* C13: in a single-file call the native capability is invoked once and
\* never again; a FileURLRetrievalError quoting a uc? URL starts
\* download_file_direct_guess_name once; when that raised, the call has
\* returned and its last ledger line is the one fallback-exception line, with
\* the uc? URL, UNKNOWN_PATH and the inner exception's text; when no URL could
\* be parsed, no fallback ran and the call's one line has UNKNOWN_URL and
\* UNKNOWN_PATH.
C13_SingleFilePath ==
    InSingleCall =>
        /\ NativeCalls <= 1
        /\ attempt = 0
        /\ pc # "single_native" => NativeCalls = 1
        /\ fallbacks <= 1
        /\ fallbacks = 1 => (outcomes = <<"FileURLRetrievalError">> /\ fbKind = "guess_name"
                             /\ fbFrom = UcUrl)
        /\ fbState = "raised" =>
              /\ pc \in {"gd_return", "done"}
              /\ RecordsWorded("Fallback single-file exception") = 1
              /\ Last(ledger) = [url |-> UcUrl, path |-> UNKNOWN_PATH,
                                 reason |-> [wording |-> "Fallback single-file exception",
                                             detail |-> <<"inner_e">>]]
        /\ (outcomes = <<"FileURLRetrievalError">> /\ fallbacks = 0) =>
              /\ pc \in {"gd_return", "done"}
              /\ fbKind = "none"
              /\ Records = 1
              /\ Last(ledger) = [url |-> UNKNOWN_URL, path |-> UNKNOWN_PATH,
                                 reason |-> [wording |-> "Could not parse uc?id=... URL from single-file FileURLRetrievalError",
                                             detail |-> <<>>]]

\* the fallback of a scraped single-file link raised and the call returned
C13_Witness ==
    /\ InSingleCall
    /\ caller = "link"
    /\ pc = "gd_return"
    /\ fbKind = "guess_name"
    /\ fbState = "raised"
    /\ Records = 1

\* C14: in a folder call, a native failure that is none of the three typed
\* ones is the last native outcome, on whatever attempt: the call has
\* returned, no fallback ran, and its one ledger line has the folder URL, the
\* output directory and the exception's text.
C14_UnclassifiedIsTerminal ==
    (InFolderCall /\ \E i \in 1..NativeCalls : outcomes[i] = "other") =>
        /\ \A i \in 1..NativeCalls : outcomes[i] = "other" => i = NativeCalls
        /\ pc \in {"gd_return", "done"}
        /\ fallbacks = 0
        /\ Records = 1
        /\ Last(ledger) = [url |-> FolderUrl, path |-> <<"data">>,
                           reason |-> [wording |-> "Unexpected error in gdown.download_folder",
                                       detail |-> <<"e">>]]

\* an unclassified failure on the second attempt
C14_Witness ==
    /\ InFolderCall
    /\ pc = "gd_return"
    /\ outcomes = <<"JSONDecodeError", "other">>
    /\ Records = 1

\* C15: a folder call makes at most max_retries native invocations, each
\* step of the folder loop makes one, and the call ends: a scraped folder
\* link's call always comes back to the loop of process_url, and process_url
\* always ends.
C15_FolderCallTerminates ==
    /\ [](InFolderCall =>
            /\ NativeCalls <= 3
            /\ pc = "folder_attempt" => (attempt = NativeCalls + 1 /\ attempt <= 3))
    /\ [][pc = "folder_attempt" => NativeCalls' = NativeCalls + 1]_vars
    /\ (pc = "folder_attempt" /\ caller = "link") ~> (pc = "loop")
    /\ <>(pc \in {"done", "raised"})

\* the link after a folder whose native transfer failed on every attempt is
\* being fetched
C15_Witness ==
    /\ url = PageUrl
    /\ links = <<FolderUrl, PdfUrl>>
    /\ handled = links
    /\ pc = "generic"
    /\ cur = PdfUrl
    /\ Len(ledger) >= 1
    /\ Last(ledger) = [url |-> FolderUrl, path |-> <<"data">>,
                       reason |-> [wording |-> "JSONDecodeError in gdown.download_folder",
                                   detail |-> <<"e">>]]

JsonLine(u) ==
    [url |-> u, path |-> <<"data">>,
     reason |-> [wording |-> "JSONDecodeError in gdown.download_folder", detail |-> <<"e">>]]

\* C16: every folder call is entered at attempt 1 with no native invocation
\* made, whatever earlier folder calls did; in a folder call attempt stays in
\* 1..max_retries and, at the head of the loop, is one more than the native
\* invocations of this call.
C16_RetryBudgetPerCall ==
    /\ [](InFolderCall =>
            /\ attempt \in 1..3
            /\ NativeCalls <= attempt
            /\ pc = "folder_attempt" => attempt = NativeCalls + 1)
    /\ [][(calls' # calls /\ Last(calls').url \in {FolderUrl, Folder2Url}) =>
              (pc' = "folder_attempt" /\ attempt' = 1 /\ outcomes' = <<>>
               /\ ledgerAtCall' = Len(ledger))]_vars

\* the second folder of a page used all three attempts after the first
\* folder had used all three
C16_Witness ==
    /\ handled = <<FolderUrl, Folder2Url>>
    /\ InFolderCall
    /\ cur = Folder2Url
    /\ pc = "gd_return"
    /\ attempt = 3
    /\ outcomes = <<"JSONDecodeError", "JSONDecodeError", "JSONDecodeError">>
    /\ ledger = <<JsonLine(FolderUrl), JsonLine(Folder2Url)>>

\* C17: in a page-scrape run, the steps into and out of download_dropbox_file
\* and download_generic_file leave the ledger as it was; the fetcher's step
\* goes back to the loop and either leaves process output as it was or
\* appends one message naming the fetcher and the link.
C17_FetcherFailureOnlyPrinted ==
    /\ [][(pc \in {"dropbox", "generic"} \/ pc' \in {"dropbox", "generic"}) =>
              ledger' = ledger]_vars
    /\ [][(pc \in {"dropbox", "generic"} /\ caller = "link") =>
              /\ pc' = "loop"
              /\ \/ out' = out /\ disk' # disk
                 \/ out' = Append(out, [tag |-> pc, link |-> cur]) /\ disk' = disk]_vars
    /\ [](url = PageUrl => Len(out) <= Len(handled))

\* a page whose shared link and whose generic link both failed, after a
\* ledger line of an earlier run
C17_Witness ==
    /\ url = PageUrl
    /\ pc = "done"
    /\ handled = <<DropboxUrl, PdfUrl>>
    /\ out = <<[tag |-> "dropbox", link |-> DropboxUrl], [tag |-> "generic", link |-> PdfUrl]>>
    /\ disk = {}
    /\ ledger = <<OldLine>>

IsPrefix(s, t) == Len(s) <= Len(t) /\ SubSeq(t, 1, Len(s)) = s

\* C18: at every step the file's earlier contents are a prefix of its new
\* contents; a call of log_failed_google_download adds exactly one record
\* (one line) and that record has three tab-separated fields; the first
\* field is UNKNOWN_URL when no URL was passed and the second UNKNOWN_PATH
\* when no path was passed.
C18_AppendOnlyOneRecordThreeFields ==
    /\ [][IsPrefix(FileText(ledger), FileText(ledger'))]_vars
    /\ [][ledger' # ledger =>
            LET old == FileRecords(FileText(ledger))
                new == FileRecords(FileText(ledger'))
            IN  /\ Len(new) = Len(old) + 1
                /\ Len(Fields(Last(new))) = 3]_vars
    /\ [](\A a \in LogArgs :
            LET line == Fields(Render(Last(log_failed_google_download(
                                            a.from_url, a.to_path, a.reason))))
            IN  /\ a.from_url = NoUrl <=> line[1] = <<"UNKNOWN_URL">>
                /\ a.to_path = NoPath <=> line[2] = <<"UNKNOWN_PATH">>)

C20_AtMostTwoRecords ==
    InDriveCall =>
        /\ Records \in 0..2
        /\ Records = 2 =>
              /\ fallbacks = 1
              /\ fbState = "raised"
              /\ InCt("text/html", fbCt)
              /\ ledger[Len(ledger) - 1] = HtmlLine(fbKind, fbCt, fbTo)
              /\ Last(ledger) = LedgerLine(fbFrom, NoPath, FallbackExcReason)
              /\ pc \in {"gd_return", "done"}

\* a single-file call whose fallback logged an HTML response and then raised
C20_Witness ==
    /\ InSingleCall
    /\ CallOver
    /\ Records = 2
    /\ ledger[ledgerAtCall + 1].reason.wording = "HTML response when guessing name"
    /\ ledger[ledgerAtCall + 2].reason.wording = "Fallback single-file exception"

====
